---------------------------- MODULE Spec2Model ----------------------------
(***************************************************************************)
(* The inscription indexing runloop of hord-cli                            *)
(* (core/pipeline/processors/inscription_indexing.rs): the worker thread   *)
(* spawned by start_inscription_indexing_processor, its command and event  *)
(* channels, process_blocks and process_block.                             *)
(*                                                                         *)
(* The worker is a sequential program; its position is pc.  The driver     *)
(* (the holder of PostProcessorController.commands_tx) and the receiver of *)
(* the optional post_processor channel run concurrently with it.           *)
(***************************************************************************)
EXTENDS Integers, Sequences, FiniteSets, TLC

(* ------------------------------ bounds -------------------------------- *)

\* commands the driver sends in one behaviour of Spec
MaxSent == 3
\* longest full-block list of one ProcessBlocks command
MaxBatch == 2
\* most inscriptions one block reveals
MaxReveal == 1
\* longest idle run (empty polls without a ProcessBlocks) followed in Spec
MaxIdleMain == 1
\* and in SpecIdle
MaxIdle == 21
\* EmptyQueue events the driver leaves unread before the worker is held back
MaxEvents == 1
\* capacity of the post_processor channel when the caller made it bounded
SinkCap == 1
\* blocks the driver sends in one behaviour of SpecGC
MaxGCBlocks == 204

(* ------------------------- program constants -------------------------- *)

\* crossbeam_channel::bounded::<PostProcessorCommand>(2)
ChannelCap == 2
\* let garbage_collect_every_n_blocks = 100;
garbage_collect_every_n_blocks == 100
\* if empty_cycles == 10
EmptyCyclesMax == 10


(* ------------------------------- data --------------------------------- *)

\* BitcoinBlockData: its height, and what augmentation attached to it.
Block(h) == [h |-> h, insc |-> <<>>, xfer |-> FALSE]

RECURSIVE SeqsOver(_, _)
SeqsOver(S, n) ==
    IF n = 0 THEN {<<>>}
    ELSE LET shorter == SeqsOver(S, n - 1)
         IN  shorter \cup {Append(s, x) : s \in {t \in shorter : Len(t) = n - 1}, x \in S}

\* PostProcessorCommand
Start == [type |-> "Start", compacted |-> {}, blocks |-> <<>>]
Terminate == [type |-> "Terminate", compacted |-> {}, blocks |-> <<>>]
ProcessBlocks(c, bs) == [type |-> "ProcessBlocks", compacted |-> c, blocks |-> bs]

\* The batches a driver following a chain of two blocks hands over.  Blocks
\* are compacted as they arrive and released in height order: block 2 has
\* arrived and waits for block 1; block 1 is replayed with nothing newly
\* compacted; block 1 arrives and releases both.
Chain == <<Block(1), Block(2)>>
Batches ==
    {b \in {ProcessBlocks({2}, <<>>),
            ProcessBlocks({}, SubSeq(Chain, 1, 1)),
            ProcessBlocks({1}, Chain)} : Len(b.blocks) <= MaxBatch}
Commands == {Start, Terminate} \cup Batches

\* a block none of whose transactions carries an inscription
PlainBlock == Block(3)

\* What the computation of a block's inscription data can return: Err,
\* Ok(false), and Ok(true) when the block has transactions to process.  The
\* blocks of Chain may have some, whatever was seen of them before.
ComputeOutcomes(b) ==
    IF b.h = PlainBlock.h
      THEN {"irrelevant", "error"}
      ELSE {"relevant", "irrelevant", "error"}

\* the commands of SpecGC: a driver that hands over plain blocks in batches
\* of up to MaxBatch
GCCommands ==
    {Start} \cup {ProcessBlocks({}, bs) : bs \in SeqsOver({PlainBlock}, MaxBatch) \ {<<>>}}

\* the commands of SpecIdle: a driver with no blocks to hand over
IdleCommands == {Start, Terminate, ProcessBlocks({2}, <<>>)}

\* The relational store: the inscription rows <<height, number>> and the
\* heights with transfer rows.
EmptyDb == [insc |-> {}, xfer |-> {}]
\* rusqlite::Transaction: the rows as the open transaction sees them
NoTx == [open |-> FALSE, insc |-> {}, xfer |-> {}]
OpenTxOn(db) == [open |-> TRUE, insc |-> db.insc, xfer |-> db.xfer]
TxRows(t) == [insc |-> t.insc, xfer |-> t.xfer]
NoBlock == [h |-> 0, insc |-> <<>>, xfer |-> FALSE]
\* The observers.  step: what the worker's last step did at the channel and
\* at the block store (the command it took and where, the arguments of its
\* store_compacted_blocks calls).  idle: the empty polls, and the events they
\* sent, since the last command of any kind (any) and since the last
\* ProcessBlocks (pb); max is the longest run followed.  An observer that
\* is off never changes.
NoStep == [took |-> "none", at |-> "none", compacted |-> {}, stores |-> <<>>]
NoRun == [n |-> 0, ev |-> 0]
IdleRuns(on, max) == [on |-> on, max |-> max, any |-> NoRun, pb |-> NoRun]
InitDbs == {EmptyDb, [insc |-> {<<1, 0>>}, xfer |-> {}]}

Max(S) == CHOOSE x \in S : \A y \in S : y <= x

VARIABLES
    pc,                         \* the worker's position
    commands,                   \* the bounded command channel
    sender_alive,               \* commands_tx not dropped
    events,                     \* EmptyQueue events sent and not yet read
    empty_cycles,
    garbage_collect_nth_block,
    cache_l2,
    blocks_db,                  \* the block store
    inscriptions_db,            \* the relational store, durable state
    sequence_cursor,            \* the cursor's next sequence number
    tx,                         \* inscriptions_db_tx: the open transaction
    next_blocks,
    block,                      \* the block process_blocks holds
    any_existing_activity,
    updated_blocks,
    sink,                       \* post_processor
    \* observers
    sent,                       \* commands sent (Spec)
    sent_blocks,                \* blocks sent (SpecGC)
    step,                       \* the worker's last step at the channel and the store
    idle,                       \* the idle runs
    outcome,                    \* the last block's computation and transaction
    at_open,                    \* the cursor and the store when it opened
    gc                          \* blocks processed and L2 clears

progVars ==
    <<pc, commands, sender_alive, events, empty_cycles, garbage_collect_nth_block,
      cache_l2, blocks_db, inscriptions_db, sequence_cursor, tx, next_blocks,
      block, any_existing_activity, updated_blocks, sink>>
obsVars == <<sent, sent_blocks, step, idle, outcome, at_open, gc>>
vars == <<progVars, obsVars>>


(* ------------------------------ helpers ------------------------------- *)

\* the worker takes cmd from the channel, at the barrier or at a poll, and
\* calls the block store with each of stores
Took(cmd, at, stores) ==
    [took |-> cmd.type, at |-> at, compacted |-> cmd.compacted, stores |-> stores]

\* get_any_entry_in_ordinal_activities: inscription or transfer rows at h
ActivityAt(db, h) == (\E r \in db.insc : r[1] = h) \/ h \in db.xfer

\* The next sequence number that durable state gives: what
\* SequenceCursor::new derives from its connection.
PersistedNext(db) == IF db.insc = {} THEN 0 ELSE Max({r[2] : r \in db.insc}) + 1

\* augment_block_with_ordinals_inscriptions_data_and_write_to_db_tx, for a
\* block that reveals n inscriptions: each takes the cursor's next number,
\* its row is written in the transaction, and the cursor advances.
RevealedNumbers(cursor, n) == [i \in 1..n |-> cursor + i - 1]
AugmentInscriptions(b, cursor, t, n) ==
    [block  |-> [b EXCEPT !.insc = RevealedNumbers(cursor, n)],
     tx     |-> [t EXCEPT !.insc = @ \cup {<<b.h, cursor + i - 1>> : i \in 1..n}],
     cursor |-> cursor + n]

\* augment_block_with_ordinals_transfer_data: transfer rows at the height
AugmentTransfers(b, t, moved) ==
    [block |-> [b EXCEPT !.xfer = moved],
     tx    |-> IF moved THEN [t EXCEPT !.xfer = @ \cup {b.h}] ELSE t]

\* a slip: the rows are written through another handle than the transaction
AugmentOutsideTx(b, cursor, t, n, moved) ==
    LET a == AugmentInscriptions(b, cursor, t, n)
        x == AugmentTransfers(a.block, a.tx, moved)
    IN  [block |-> x.block, tx |-> t, cursor |-> a.cursor]

\* process_block, past its early returns: the inscriptions and then the
\* transfers, both written in the transaction process_blocks opened
Augment(b, cursor, t, n, moved) ==
    LET a == AugmentInscriptions(b, cursor, t, n)
        x == AugmentTransfers(a.block, a.tx, moved)
    IN  [block |-> x.block, tx |-> x.tx, cursor |-> a.cursor]

\* a slip: the relevance answer is not looked at
AugmentsUnlessError(r) == r # "error"

\* parallelize_inscription_data_computations(..)?, then
\* if !any_processable_transactions { return Ok(()) }
Augments(r) == r = "relevant"

\* The cursor once a transaction has ended: its advancement lives in the
\* transaction, so it stands where durable state puts it.
CursorAfterTx(db) == PersistedNext(db)

\* what a computation that answered r leaves in L2 for a block at height h
L2Fill(r, h) == IF r = "error" THEN {} ELSE {h}

\* slips: the branches swapped; the check forgotten; the store asked again
\* when the transaction is to end
MustRollbackInverted == ~any_existing_activity
MustRollbackNever == FALSE
MustRollbackLate == ActivityAt(tx, block.h)

\* if any_existing_activity { rollback } else { commit }
MustRollback == any_existing_activity

\* a slip: L2 cleared after every batch
ShouldClearEachBatch(n) == TRUE

\* a slip: >= for >
ShouldClearAtThreshold(n) == n >= garbage_collect_every_n_blocks

\* if garbage_collect_nth_block > garbage_collect_every_n_blocks
ShouldClear(n) == n > garbage_collect_every_n_blocks

\* a slip: one cycle early
EmitsEmptyQueueEarly(cycles) == cycles = EmptyCyclesMax - 1

\* if empty_cycles == 10
EmitsEmptyQueue(cycles) == cycles = EmptyCyclesMax

\* a slip: no early return
EarlyReturnNever(bs) == FALSE

\* if blocks.is_empty(): the early return
EarlyReturn(bs) == bs = <<>>

(* ------------------------------- Init --------------------------------- *)

InitProgram(sinks) ==
    /\ pc = "barrier"
    /\ commands = <<>>
    /\ sender_alive = TRUE
    /\ events = 0
    /\ empty_cycles = 0
    /\ garbage_collect_nth_block = 0
    /\ cache_l2 = {}
    /\ blocks_db = {}
    /\ inscriptions_db \in InitDbs
    /\ sequence_cursor = PersistedNext(inscriptions_db)
    /\ tx = NoTx
    /\ next_blocks = <<>>
    /\ block = NoBlock
    /\ any_existing_activity = FALSE
    /\ updated_blocks = <<>>
    /\ sink \in {[mode |-> m, q |-> <<>>] : m \in sinks}
    /\ sent = 0
    /\ sent_blocks = 0
    /\ outcome = [compute |-> "none", tx |-> "none"]
    /\ step = NoStep
    /\ at_open = [cursor |-> sequence_cursor, db |-> inscriptions_db]
    /\ gc = [total |-> 0, clears |-> 0, last |-> 0, gap |-> 0]

SinkModes == {"none", "open", "dropped"}

Init ==
    /\ InitProgram(SinkModes)
    /\ idle = IdleRuns(TRUE, MaxIdleMain)

InitIdle ==
    /\ InitProgram({"none"})
    /\ idle = IdleRuns(TRUE, MaxIdle)

InitGC ==
    /\ InitProgram({"none"})
    /\ idle = IdleRuns(TRUE, MaxIdleMain)

(* ------------------------------ driver -------------------------------- *)

workerVars ==
    <<pc, empty_cycles, garbage_collect_nth_block, cache_l2, blocks_db,
      inscriptions_db, sequence_cursor, tx, next_blocks, block,
      any_existing_activity, updated_blocks>>
workerObs == <<step, idle, outcome, at_open, gc>>

\* commands_tx.send(cmd): blocks while the channel holds ChannelCap commands
Send(cmd) ==
    /\ sender_alive
    /\ Len(commands) < ChannelCap
    /\ commands' = Append(commands, cmd)
    /\ UNCHANGED <<workerVars, workerObs, sender_alive, events, sink>>

DriverSend ==
    /\ sent < MaxSent
    /\ \E cmd \in Commands : Send(cmd)
    /\ sent' = sent + 1
    /\ UNCHANGED sent_blocks

\* the driver of SpecGC: Start first, then a batch whenever the channel is
\* empty
DriverSendGC ==
    \E cmd \in GCCommands :
        /\ sent_blocks + Len(cmd.blocks) <= MaxGCBlocks
        /\ (cmd = Start) = (sent = 0)
        /\ commands = <<>>
        /\ Send(cmd)
        /\ sent_blocks' = sent_blocks + Len(cmd.blocks)
        /\ sent' = 1

DriverSendIdle ==
    /\ sent < MaxSent
    /\ \E cmd \in IdleCommands : Send(cmd)
    /\ sent' = sent + 1
    /\ UNCHANGED sent_blocks

\* the controller, and with it commands_tx, is dropped
DriverDrop ==
    /\ sender_alive
    /\ sender_alive' = FALSE
    /\ UNCHANGED <<workerVars, workerObs, commands, events, sink, sent, sent_blocks>>

\* events_rx.recv()
DriverRecvEvent ==
    /\ events > 0
    /\ events' = events - 1
    /\ UNCHANGED <<workerVars, workerObs, commands, sender_alive, sink, sent, sent_blocks>>

\* the receiver of the post_processor channel takes a block
SinkRecv ==
    /\ sink.mode = "open"
    /\ sink.q # <<>>
    /\ sink' = [sink EXCEPT !.q = Tail(@)]
    /\ UNCHANGED <<workerVars, workerObs, commands, sender_alive, events, sent, sent_blocks>>

(* ------------------------------ worker -------------------------------- *)

loopVars == <<empty_cycles, garbage_collect_nth_block, cache_l2, blocks_db>>
batchVars ==
    <<inscriptions_db, sequence_cursor, tx, next_blocks, block,
      any_existing_activity, updated_blocks, sink>>
driverVars == <<sender_alive, sent, sent_blocks>>

\* store_compacted_blocks(compacted_blocks, &blocks_db_rw, ..)
StoreCompactedBlocks(db, c) == db \cup c

\* an idle run ends: by any command, or by a ProcessBlocks alone
RunEndedBy(cmd) ==
    IF ~idle.on THEN idle
    ELSE [idle EXCEPT !.any = NoRun,
                      !.pb = IF cmd.type = "ProcessBlocks" THEN NoRun ELSE @]

\* slips: every error of the channel handled as Empty; the channel reported
\* disconnected as soon as its sender is gone
ChannelEmptyOrDisconnected == commands = <<>>
DisconnectedOnDrop == ~sender_alive

\* Err(TryRecvError::Empty): nothing queued, the sender alive
ChannelEmpty == commands = <<>> /\ sender_alive

\* Err(TryRecvError::Disconnected), and recv()'s Err: nothing queued and the
\* sender gone; what was queued before the drop is still received
Disconnected == commands = <<>> /\ ~sender_alive

\* if let Ok(PostProcessorCommand::Start) = commands_rx.recv() { info!(..) }
\* recv() blocks until a command is there or the sender is gone; whatever
\* it returns, the loop is entered.
RecvStart ==
    /\ pc = "barrier"
    /\ \/ /\ commands # <<>>
          /\ commands' = Tail(commands)
          /\ step' = Took(Head(commands), "barrier", <<>>)
       \/ /\ Disconnected
          /\ step' = NoStep
          /\ UNCHANGED commands
    /\ pc' = "poll"
    /\ UNCHANGED <<loopVars, batchVars, driverVars, events, idle, outcome, at_open, gc>>

\* Ok(PostProcessorCommand::ProcessBlocks(compacted_blocks, blocks)): the
\* idle counter resets, the compacted blocks are stored, and the blocks, if
\* any, go to process_blocks
PollProcessBlocks ==
    /\ pc = "poll"
    /\ commands # <<>>
    /\ Head(commands).type = "ProcessBlocks"
    /\ LET cmd == Head(commands) IN
        /\ commands' = Tail(commands)
        /\ step' = Took(cmd, "poll", <<cmd.compacted>>)
        /\ idle' = RunEndedBy(cmd)
        /\ empty_cycles' = 0
        /\ blocks_db' = StoreCompactedBlocks(blocks_db, cmd.compacted)
        /\ IF EarlyReturn(cmd.blocks)
             THEN /\ pc' = "poll"
                  /\ UNCHANGED <<next_blocks, updated_blocks>>
             ELSE /\ pc' = "loop"
                  /\ next_blocks' = cmd.blocks
                  /\ updated_blocks' = <<>>
    /\ UNCHANGED <<garbage_collect_nth_block, cache_l2, inscriptions_db,
                   sequence_cursor, tx, block, any_existing_activity, sink,
                   driverVars, events, outcome, at_open, gc>>

\* Ok(PostProcessorCommand::Terminate) => break
PollTerminate ==
    /\ pc = "poll"
    /\ commands # <<>>
    /\ Head(commands).type = "Terminate"
    /\ commands' = Tail(commands)
    /\ step' = Took(Head(commands), "poll", <<>>)
    /\ idle' = RunEndedBy(Head(commands))
    /\ pc' = "done"
    /\ UNCHANGED <<loopVars, batchVars, driverVars, events, outcome, at_open, gc>>

\* a slip: Start handled as the end of an idle run
IdleAfterStartReset(cycles) == 0

\* the Start arm is a bare continue: the idle counter is what it was
IdleAfterStart(cycles) == cycles

\* Ok(PostProcessorCommand::Start) => continue
PollStart ==
    /\ pc = "poll"
    /\ commands # <<>>
    /\ Head(commands).type = "Start"
    /\ commands' = Tail(commands)
    /\ step' = Took(Head(commands), "poll", <<>>)
    /\ idle' = RunEndedBy(Head(commands))
    /\ empty_cycles' = IdleAfterStart(empty_cycles)
    /\ pc' = "poll"
    /\ UNCHANGED <<garbage_collect_nth_block, cache_l2, blocks_db, batchVars,
                   driverVars, events, outcome, at_open, gc>>

\* Err(TryRecvError::Empty): count, report every 10th, sleep, continue
PollEmpty ==
    /\ pc = "poll"
    /\ ChannelEmpty
    /\ idle.on => idle.pb.n < idle.max
    /\ LET emits == EmitsEmptyQueue(empty_cycles + 1)
           e == IF emits THEN 1 ELSE 0
       IN  /\ emits => events < MaxEvents
           /\ empty_cycles' = IF emits THEN 0 ELSE empty_cycles + 1
           /\ events' = events + e
           /\ idle' = IF ~idle.on THEN idle
                      ELSE [idle EXCEPT !.any = [n |-> @.n + 1, ev |-> @.ev + e],
                                        !.pb = [n |-> @.n + 1, ev |-> @.ev + e]]
    /\ step' = NoStep
    /\ pc' = "poll"
    /\ UNCHANGED <<garbage_collect_nth_block, cache_l2, blocks_db, batchVars,
                   driverVars, commands, outcome, at_open, gc>>

\* Err(_) => break: the channel is empty and its sender dropped
PollDisconnected ==
    /\ pc = "poll"
    /\ Disconnected
    /\ step' = NoStep
    /\ pc' = "done"
    /\ UNCHANGED <<loopVars, batchVars, driverVars, commands, events, idle,
                   outcome, at_open, gc>>

(* --------------------------- process_blocks --------------------------- *)

pollVars == <<commands, events, empty_cycles, blocks_db, garbage_collect_nth_block>>
pollObs == <<idle>>

\* for _cursor in 0..next_blocks.len(): open the transaction, take the first
\* block, look for activity at its height; or, the blocks done, return
LoopHead ==
    /\ pc = "loop"
    /\ step' = NoStep
    /\ IF next_blocks = <<>>
         THEN /\ pc' = "collect"
              /\ UNCHANGED <<tx, block, next_blocks, any_existing_activity, at_open>>
         ELSE /\ tx' = OpenTxOn(inscriptions_db)
              /\ block' = Head(next_blocks)
              /\ next_blocks' = Tail(next_blocks)
              /\ any_existing_activity' = ActivityAt(tx', block'.h)
              /\ at_open' = [cursor |-> sequence_cursor, db |-> inscriptions_db]
              /\ pc' = "compute"
    /\ UNCHANGED <<pollVars, pollObs, driverVars, cache_l2, inscriptions_db,
                   sequence_cursor, updated_blocks, sink, outcome, gc>>

\* slips: the error returned to the caller of process_blocks; a block with
\* nothing relevant sent on at once
AfterComputePropagates(r) == IF r = "error" THEN "collect" ELSE "resolve"
AfterComputeSkipsIrrelevant(r) == IF r = "irrelevant" THEN "forward" ELSE "resolve"

\* let _ = process_block(..): whatever it returned, process_blocks goes on
\* to the end of the transaction
AfterCompute(r) == "resolve"

\* process_block: parallelize_inscription_data_computations answers
\* Ok(true), Ok(false) or Err and may fill L2; only on Ok(true) is the block
\* augmented, with inscriptions and then with transfers
ProcessBlock ==
    /\ pc = "compute"
    /\ step' = NoStep
    /\ \E r \in ComputeOutcomes(block) :
        /\ cache_l2' = cache_l2 \cup L2Fill(r, block.h)
        /\ outcome' = [compute |-> r, tx |-> "open"]
        /\ IF Augments(r)
             THEN \E n \in 0..MaxReveal, moved \in BOOLEAN :
                    LET a == Augment(block, sequence_cursor, tx, n, moved)
                    IN  /\ block' = a.block
                        /\ tx' = a.tx
                        /\ sequence_cursor' = a.cursor
             ELSE UNCHANGED <<block, tx, sequence_cursor>>
        /\ pc' = AfterCompute(r)
    /\ UNCHANGED <<pollVars, pollObs, driverVars, inscriptions_db, next_blocks,
                   any_existing_activity, updated_blocks, sink, at_open, gc>>

\* a slip: a commit that failed is tried again until it goes through
CommitRetried(ok, db, t) == TxRows(t)

\* inscriptions_db_tx.commit(): Ok makes the transaction's rows durable, Err
\* is logged and leaves durable state as it was
Commit(ok, db, t) == IF ok THEN TxRows(t) ELSE db

\* if any_existing_activity { rollback } else { match commit { .. } }
ResolveTx ==
    /\ pc = "resolve"
    /\ step' = NoStep
    /\ IF MustRollback
         THEN /\ UNCHANGED inscriptions_db
              /\ outcome' = [outcome EXCEPT !.tx = "rollback"]
         ELSE \E ok \in BOOLEAN :
                /\ inscriptions_db' = Commit(ok, inscriptions_db, tx)
                /\ outcome' = [outcome EXCEPT !.tx = IF ok THEN "commit" ELSE "commit_failed"]
    /\ tx' = NoTx
    /\ sequence_cursor' = CursorAfterTx(inscriptions_db')
    /\ pc' = "forward"
    /\ UNCHANGED <<pollVars, pollObs, driverVars, cache_l2, next_blocks, block,
                   any_existing_activity, updated_blocks, sink, at_open, gc>>

\* slip: the block is pushed to the return set without being sent
SinkSendSkipped(b) == UNCHANGED sink

\* post_processor_tx.send(block.clone()), its result dropped
SinkSend(b) ==
    CASE sink.mode = "none" -> UNCHANGED sink
      [] sink.mode = "dropped" -> UNCHANGED sink
      [] sink.mode = "open" ->
            /\ Len(sink.q) < SinkCap
            /\ sink' = [sink EXCEPT !.q = Append(@, b)]

\* if let Some(post_processor_tx) = post_processor { send }; push
ForwardBlock ==
    /\ pc = "forward"
    /\ step' = NoStep
    /\ SinkSend(block)
    /\ updated_blocks' = Append(updated_blocks, block)
    /\ block' = NoBlock
    /\ any_existing_activity' = FALSE
    /\ gc' = [gc EXCEPT !.total = @ + 1]
    /\ pc' = "loop"
    /\ UNCHANGED <<pollVars, pollObs, driverVars, cache_l2, inscriptions_db,
                   sequence_cursor, tx, next_blocks, outcome, at_open>>

\* garbage_collect_nth_block += blocks.len(); clear L2 past the threshold
CollectGarbage ==
    /\ pc = "collect"
    /\ step' = NoStep
    /\ LET n == garbage_collect_nth_block + Len(updated_blocks) IN
         IF ShouldClear(n)
           THEN /\ cache_l2' = {}
                /\ garbage_collect_nth_block' = 0
                /\ gc' = [gc EXCEPT !.clears = @ + 1,
                                    !.gap = gc.total - gc.last,
                                    !.last = gc.total]
           ELSE /\ garbage_collect_nth_block' = n
                /\ UNCHANGED <<cache_l2, gc>>
    /\ updated_blocks' = <<>>
    /\ outcome' = [compute |-> "none", tx |-> "none"]
    /\ at_open' = [cursor |-> sequence_cursor, db |-> inscriptions_db]
    /\ pc' = "poll"
    /\ UNCHANGED <<commands, events, empty_cycles, blocks_db, pollObs, driverVars,
                   inscriptions_db, sequence_cursor, tx, next_blocks, block,
                   any_existing_activity, sink>>

(* --------------------------- specifications --------------------------- *)

Worker ==
    \/ RecvStart
    \/ PollProcessBlocks
    \/ PollTerminate
    \/ PollStart
    \/ PollEmpty
    \/ PollDisconnected
    \/ LoopHead
    \/ ProcessBlock
    \/ ResolveTx
    \/ ForwardBlock
    \/ CollectGarbage

Next == DriverSend \/ DriverDrop \/ SinkRecv \/ Worker

Spec == Init /\ [][Next]_vars

\* The driver of SpecGC sends Start and then batches without end: the
\* worker never terminates, and no sink is configured.
NextGC ==
    \/ DriverSendGC
    \/ RecvStart
    \/ PollProcessBlocks
    \/ PollEmpty
    \/ LoopHead
    \/ ProcessBlock
    \/ ResolveTx
    \/ ForwardBlock
    \/ CollectGarbage

SpecGC == InitGC /\ [][NextGC]_vars

\* The driver of SpecIdle has no blocks to hand over: the worker polls.
NextIdle ==
    \/ DriverSendIdle
    \/ DriverDrop
    \/ DriverRecvEvent
    \/ RecvStart
    \/ PollProcessBlocks
    \/ PollTerminate
    \/ PollStart
    \/ PollEmpty
    \/ PollDisconnected

SpecIdle == InitIdle /\ [][NextIdle]_vars

(* ------------------------------ claims -------------------------------- *)

Last(q) == q[Len(q)]
Unaugmented(b) == b.insc = <<>> /\ b.xfer = FALSE
\* the block in hand is at a height that had activity when its transaction opened
PriorActivity == ActivityAt(at_open.db, block.h)
\* the worker's step takes the first command of the channel
TakesHead == commands # <<>> /\ commands' = Tail(commands)

\* C1: every ProcessBlocks command the worker takes from the channel is
\* followed, in the same step, by exactly one store_compacted_blocks call
\* with that command's compacted blocks, and no other step calls the store.
C1_EveryProcessBlocksStoredOnce ==
    /\ step.took = "ProcessBlocks" => step.stores = <<step.compacted>>
    /\ step.took # "ProcessBlocks" => step.stores = <<>>

\* C2: a block at a height with activity in durable state when its
\* transaction opened is rolled back, never committed, and leaves durable
\* state as it was, whatever augmentation ran in the transaction.
C2_RollbackLeavesDurableState ==
    (pc = "forward" /\ PriorActivity) =>
        /\ outcome.tx = "rollback"
        /\ inscriptions_db = at_open.db

\* a height is reprocessed after a commit of this run put transfer rows at
\* it, augmentation runs again and reveals an inscription, and it is rolled back
C2_Witness ==
    /\ pc = "forward"
    /\ PriorActivity
    /\ block.h \in at_open.db.xfer
    /\ outcome = [compute |-> "relevant", tx |-> "rollback"]
    /\ block.insc # <<>>

C5_ClearedEvery100 ==
    pc = "poll" => gc.clears = gc.total \div garbage_collect_every_n_blocks

\* C5 as amended: L2 is cleared at the end of a batch exactly when the blocks
\* processed since the last clear (or the start) then exceed 100.  Between
\* batches at most 100 blocks are uncollected and the counter is their
\* number; a clear comes after 101 blocks or more (fewer than 101 plus a
\* batch), and leaves L2 empty and the counter 0.
C5_ClearedPast100 ==
    /\ pc = "poll" =>
          /\ gc.total - gc.last <= garbage_collect_every_n_blocks
          /\ garbage_collect_nth_block = gc.total - gc.last
    /\ gc.clears > 0 =>
          /\ gc.gap > garbage_collect_every_n_blocks
          /\ gc.gap <= garbage_collect_every_n_blocks + MaxBatch
    /\ (pc = "poll" /\ gc.clears > 0 /\ gc.total = gc.last) =>
          cache_l2 = {} /\ garbage_collect_nth_block = 0

\* 100 blocks left L2 filled; the batch that brought the 101st cleared it
C5_Witness ==
    /\ pc = "poll"
    /\ gc.clears = 1
    /\ gc.total = garbage_collect_every_n_blocks + 1
    /\ gc.gap = garbage_collect_every_n_blocks + 1
    /\ cache_l2 = {}
    /\ garbage_collect_nth_block = 0

\* C6 as stated: in a run of empty polls that any received command ends, the
\* EmptyQueue events sent are the tens of polls made.
C6_EventEveryTenPollsOfARun == idle.any.ev = idle.any.n \div EmptyCyclesMax

\* C6 as amended: in a run of empty polls that only a ProcessBlocks command
\* (or the end of the loop) ends, a Start taken in between changing nothing,
\* the EmptyQueue events sent are the tens of polls made, and the idle
\* counter is the polls made since the last event.
C6_EventEveryTenPollsSinceBatch ==
    /\ idle.pb.ev = idle.pb.n \div EmptyCyclesMax
    /\ empty_cycles = idle.pb.n % EmptyCyclesMax

\* twenty empty polls with a Start taken among them: two events
C6_Witness ==
    /\ idle.pb.n = 2 * EmptyCyclesMax
    /\ idle.pb.ev = 2
    /\ idle.any.n < EmptyCyclesMax
    /\ idle.any.n > 0

\* C7: a Terminate the worker takes from the channel ends its loop.
C7_TerminateEndsLoop == step.took = "Terminate" => pc = "done"

\* C8: what the barrier takes from the channel is a Start command.
C8_BarrierTakesOnlyStart == step.at = "barrier" => step.took = "Start"

\* a block at a height without prior activity whose computation found
\* nothing relevant, its transaction ended
IrrelevantFreshBlock == pc = "forward" /\ outcome.compute = "irrelevant" /\ ~PriorActivity

\* C9 as stated: for such a block no commit is performed on the transaction.
C9_NoCommitWhenIrrelevant ==
    IrrelevantFreshBlock => outcome.tx \notin {"commit", "commit_failed"}

\* C9 as amended: for such a block a transaction is opened, the activity
\* check is false, no augmentation runs and the transaction holds no write;
\* the transaction is committed all the same (the commit may fail), which
\* leaves durable state and the cursor as they were; the block is sent to
\* the sink and returned unaugmented.
C9_IrrelevantBlockCommitsNothing ==
    /\ (pc = "resolve" /\ outcome.compute = "irrelevant") =>
          /\ tx.open
          /\ TxRows(tx) = at_open.db
          /\ Unaugmented(block)
    /\ IrrelevantFreshBlock =>
          /\ ~any_existing_activity
          /\ outcome.tx \in {"commit", "commit_failed"}
          /\ ~tx.open
          /\ inscriptions_db = at_open.db
          /\ sequence_cursor = at_open.cursor
          /\ Unaugmented(block)
    /\ (pc \in {"loop", "collect"} /\ outcome.compute = "irrelevant") =>
          /\ updated_blocks # <<>>
          /\ Unaugmented(Last(updated_blocks))
          /\ sink.q # <<>> => Unaugmented(Last(sink.q))

\* such a block, committed, has been sent to the sink and is in the return set
C9_Witness ==
    /\ pc \in {"loop", "collect"}
    /\ outcome = [compute |-> "irrelevant", tx |-> "commit"]
    /\ at_open.db = EmptyDb
    /\ inscriptions_db = EmptyDb
    /\ sink.mode = "open"
    /\ sink.q = <<Block(1)>>
    /\ updated_blocks = <<Block(1)>>

\* the poll takes a ProcessBlocks command with no full blocks
TakesEmptyBatch ==
    /\ pc = "poll"
    /\ TakesHead
    /\ Head(commands).type = "ProcessBlocks"
    /\ Head(commands).blocks = <<>>

\* what C10 lists: the compacted blocks are stored, once, no transaction is
\* opened, the relational store, the cursor, L2, the processed-block
\* counter, the sink and the events are left as they were, and the worker
\* goes back to polling
EmptyBatchStoresAndPolls ==
    /\ blocks_db' = blocks_db \cup Head(commands).compacted
    /\ step'.stores = <<Head(commands).compacted>>
    /\ pc' = "poll"
    /\ ~tx'.open
    /\ UNCHANGED <<tx, inscriptions_db, sequence_cursor, cache_l2,
                   garbage_collect_nth_block, sink, events, next_blocks,
                   updated_blocks, block, any_existing_activity>>

\* C10 as stated: a ProcessBlocks command with no full blocks stores its
\* compacted blocks and changes nothing else of the worker's state.
C10_EmptyBatchChangesOnlyStore ==
    [][TakesEmptyBatch => (EmptyBatchStoresAndPolls /\ UNCHANGED empty_cycles)]_vars

\* C10 as amended: a ProcessBlocks command with no full blocks stores its
\* compacted blocks and resets the idle counter to 0; it changes nothing
\* else: no transaction, cursor, L2, processed-block counter and sink
\* untouched, and the worker goes back to polling.
C10_EmptyBatchOnlyStores ==
    [][TakesEmptyBatch => (EmptyBatchStoresAndPolls /\ empty_cycles' = 0)]_vars

\* ProcessBlocks({2}, <<>>) has been taken at a poll: block 2 is stored and
\* the worker polls again
C10_Witness ==
    /\ pc = "poll"
    /\ step = [took |-> "ProcessBlocks", at |-> "poll", compacted |-> {2}, stores |-> <<{2}>>]
    /\ 2 \in blocks_db
    /\ ~tx.open
    /\ empty_cycles = 0

\* the heights of the blocks of a sequence
Heights(bs) == [i \in 1..Len(bs) |-> bs[i].h]

\* the blocks of the batch in hand: those returned so far, the one being
\* processed, those still to come
InHand ==
    Heights(updated_blocks)
        \o (IF block = NoBlock THEN <<>> ELSE <<block.h>>)
        \o Heights(next_blocks)

\* a step of the worker inside process_blocks, or around it
BatchStep == pc' # pc /\ pc \in {"loop", "compute", "resolve", "forward"}

\* C11: the blocks of a batch are processed one at a time in the order
\* delivered; each is sent to the sink once, when there is one, and pushed
\* to the return set once, in that order, whatever became of its
\* transaction and computation; the return set has as many blocks as the
\* batch.
C11_BatchInOrderOnce ==
    [][/\ (TakesHead /\ pc = "poll" /\ pc' = "loop") =>
              /\ InHand' = Heights(Head(commands).blocks)
              /\ updated_blocks' = <<>>
       /\ BatchStep => InHand' = InHand
       /\ (pc = "loop" /\ pc' = "compute") =>
              /\ block = NoBlock
              /\ block' = Head(next_blocks)
       /\ (pc = "forward" /\ pc' # pc) =>
              /\ updated_blocks' = Append(updated_blocks, block)
              /\ sink.mode = "open" => sink.q' = Append(sink.q, block)
              /\ sink.mode # "open" => sink' = sink
       /\ (pc # "forward" \/ pc' = pc) =>
              /\ updated_blocks' = updated_blocks \/ updated_blocks' = <<>>
              /\ sink.q' = sink.q \/ sink.q' = Tail(sink.q)
       /\ (pc = "loop" /\ pc' = "collect") =>
              /\ next_blocks = <<>>
              /\ block = NoBlock
              /\ Heights(updated_blocks) = InHand]_vars

\* a batch of two blocks is returned whole, the first block's transaction
\* rolled back and the second's commit failed, the second block in the sink
C11_Witness ==
    /\ pc = "collect"
    /\ Heights(updated_blocks) = <<1, 2>>
    /\ inscriptions_db = [insc |-> {<<1, 0>>}, xfer |-> {}]
    /\ outcome.tx = "commit_failed"
    /\ sink.mode = "open"
    /\ sink.q = <<updated_blocks[2]>>

\* C12: sending a block to the sink never makes the worker wait: with the
\* block's transaction ended, the worker can push the block and go on,
\* whatever the state of the sink channel.
C12_ForwardNeverWaits == pc = "forward" => ENABLED ForwardBlock

\* the ways a transaction ends
TxEnds == {"commit", "commit_failed", "rollback"}

\* C13: a transaction is open only while one block is being processed, and
\* it is that block's; it is opened with none open, and it is ended, by a
\* commit or by a rollback, before the next block's is opened and before
\* the worker polls again or leaves its loop.
C13_OneTxPerBlockResolved ==
    /\ [](tx.open => (pc \in {"compute", "resolve"} /\ block # NoBlock))
    /\ [][/\ (~tx.open /\ tx'.open) =>
                 /\ pc = "loop" /\ pc' = "compute"
                 /\ tx' = OpenTxOn(inscriptions_db)
                 /\ block' = Head(next_blocks)
          /\ (tx.open /\ tx'.open) => block'.h = block.h
          /\ (tx.open /\ ~tx'.open) =>
                 /\ pc = "resolve" /\ pc' = "forward"
                 /\ outcome'.tx \in TxEnds
                 /\ block' = block]_vars

\* the first block's transaction was rolled back and the second's is open
C13_Witness ==
    /\ pc = "compute"
    /\ tx.open
    /\ Len(updated_blocks) = 1
    /\ outcome.tx = "rollback"
    /\ block.h = 2

\* C14: whether a block's transaction is rolled back or committed rests on
\* the activity found at its height when the transaction was opened, and on
\* nothing written since: a block at a height without prior activity is
\* committed, though its augmentation wrote rows at that height inside the
\* transaction.
C14_DecisionFromCheckAtOpen ==
    /\ pc \in {"compute", "resolve"} => any_existing_activity = PriorActivity
    /\ pc = "forward" => (outcome.tx = "rollback") = PriorActivity
    /\ (pc = "forward" /\ ~PriorActivity) => outcome.tx \in {"commit", "commit_failed"}
    /\ (pc = "forward" /\ outcome.tx = "commit") =>
          ActivityAt(inscriptions_db, block.h) = (block.insc # <<>> \/ block.xfer)

\* a block at a fresh height was augmented with an inscription and committed:
\* its rows are durable
C14_Witness ==
    /\ pc = "forward"
    /\ ~PriorActivity
    /\ outcome = [compute |-> "relevant", tx |-> "commit"]
    /\ block.insc # <<>>
    /\ ActivityAt(inscriptions_db, block.h)

\* C15: after a batch with blocks the counter grows by the number of blocks
\* returned, and exactly when it then exceeds 100 L2 is emptied and the
\* counter set to 0; no other step removes an entry of L2 or changes the
\* counter, so L2 only grows from one clear to the next.
C15_L2RemovedOnlyByClear ==
    [][/\ (pc = "collect" /\ pc' # pc) =>
              LET n == garbage_collect_nth_block + Len(updated_blocks) IN
                /\ Len(updated_blocks) > 0
                /\ IF n > garbage_collect_every_n_blocks
                     THEN cache_l2' = {} /\ garbage_collect_nth_block' = 0
                     ELSE cache_l2' = cache_l2 /\ garbage_collect_nth_block' = n
       /\ (pc # "collect" \/ pc' = pc) =>
              /\ cache_l2 \subseteq cache_l2'
              /\ garbage_collect_nth_block' = garbage_collect_nth_block]_vars

\* L2, cleared once, was filled again by a later batch and is kept while
\* the worker polls
C15_Witness ==
    /\ pc = "poll"
    /\ gc.clears = 1
    /\ garbage_collect_nth_block > 0
    /\ cache_l2 # {}
    /\ step = NoStep

\* the block in hand is one whose computation failed
ComputeFailed == outcome.compute = "error"

\* C16: a computation that fails does not end the batch: the block's
\* transaction is still ended, by commit or rollback, the block is sent to
\* the sink and pushed to the return set, and the blocks that remain are
\* processed in their order.
C16_ComputeFailureKeepsBatch ==
    [][/\ (pc = "compute" /\ pc' # pc) =>
              /\ pc' = "resolve"
              /\ next_blocks' = next_blocks
              /\ tx'.open
       /\ (pc = "resolve" /\ ComputeFailed /\ pc' # pc) =>
              /\ pc' = "forward"
              /\ outcome'.tx \in TxEnds
              /\ ~tx'.open
              /\ next_blocks' = next_blocks
       /\ (pc = "forward" /\ ComputeFailed /\ pc' # pc) =>
              /\ pc' = "loop"
              /\ updated_blocks' = Append(updated_blocks, block)
              /\ sink.mode = "open" => sink.q' = Append(sink.q, block)
              /\ next_blocks' = next_blocks
       /\ (pc = "loop" /\ ComputeFailed /\ pc' # pc) =>
              IF next_blocks = <<>>
                THEN pc' = "collect" /\ updated_blocks' = updated_blocks
                ELSE pc' = "compute" /\ block' = Head(next_blocks)]_vars

\* the first block's computation failed; the block was returned and the
\* second block is being processed
C16_Witness ==
    /\ pc = "compute"
    /\ ComputeFailed
    /\ updated_blocks = <<Block(1)>>
    /\ block = Block(2)
    /\ tx.open

\* the commit of the block in hand failed
CommitFailed == outcome.tx = "commit_failed"

\* C17: a commit that fails is not tried again and is not reported: durable
\* state stays as it was when the transaction was opened, no event is
\* sent, the block is sent to the sink, pushed to the return set and
\* counted with the batch, and the next block is processed.
C17_CommitFailureSwallowed ==
    /\ []((pc = "forward" /\ CommitFailed) => inscriptions_db = at_open.db)
    /\ []((pc \in {"loop", "collect"} /\ CommitFailed) => updated_blocks # <<>>)
    /\ [][/\ (pc \in {"resolve", "forward", "loop", "collect"} /\ pc' # pc) =>
                 events' = events
          /\ (pc = "forward" /\ CommitFailed /\ pc' # pc) =>
                 /\ pc' = "loop"
                 /\ updated_blocks' = Append(updated_blocks, block)
                 /\ sink.mode = "open" => sink.q' = Append(sink.q, block)
                 /\ UNCHANGED <<inscriptions_db, next_blocks>>
          /\ (pc = "loop" /\ CommitFailed /\ pc' # pc) =>
                 IF next_blocks = <<>>
                   THEN pc' = "collect" /\ updated_blocks' = updated_blocks
                   ELSE pc' = "compute" /\ block' = Head(next_blocks)
          /\ (pc = "collect" /\ pc' # pc) =>
                 garbage_collect_nth_block' \in
                     {0, garbage_collect_nth_block + Len(updated_blocks)}]_vars

\* the first block, augmented, lost its commit: nothing is durable, no event
\* was sent, the block was returned and the second block is being processed
C17_Witness ==
    /\ pc = "compute"
    /\ CommitFailed
    /\ Len(updated_blocks) = 1
    /\ updated_blocks[1].insc # <<>>
    /\ inscriptions_db = EmptyDb
    /\ events = 0
    /\ block = Block(2)

\* C18: a Start taken by a poll changes nothing: the idle counter, the
\* processed-block counter, L2, the cursor, the block store and the
\* relational store are as they were, nothing is stored, no event is sent,
\* and the worker polls again.
C18_StartInLoopIsNoOp ==
    [][(pc = "poll" /\ TakesHead /\ Head(commands).type = "Start") =>
          /\ pc' = "poll"
          /\ step'.stores = <<>>
          /\ UNCHANGED <<empty_cycles, garbage_collect_nth_block, cache_l2,
                         sequence_cursor, blocks_db, inscriptions_db, events,
                         tx, next_blocks, updated_blocks, block, sink>>]_vars

\* a Start was taken by a poll after a batch and an empty poll: the idle
\* counter, the processed-block counter and L2 are not reset
C18_Witness ==
    /\ pc = "poll"
    /\ step = Took(Start, "poll", <<>>)
    /\ empty_cycles = 1
    /\ garbage_collect_nth_block > 0
    /\ cache_l2 # {}

\* the channel is empty and its sender is gone: the next receive errs
\* otherwise than by Empty
ReceiveErrs == commands = <<>> /\ ~sender_alive

\* C19: on an error of the channel other than Empty the worker leaves its
\* loop and ends.  At a poll its one step is to end, and neither the idle
\* counter nor the events change (no EmptyQueue, no sleep and poll again);
\* at the barrier it goes to its first poll, which then ends it.  Once ended
\* the worker takes no step.
C19_DisconnectEndsWorker ==
    /\ []((pc = "poll" /\ ReceiveErrs) => (ENABLED PollDisconnected /\ ~ENABLED PollEmpty))
    /\ []((pc = "barrier" /\ ReceiveErrs) => ENABLED RecvStart)
    /\ [](pc = "done" => ~ENABLED Worker)
    /\ [][/\ (pc = "poll" /\ ReceiveErrs) =>
                 /\ pc' \in {"poll", "done"}
                 /\ pc' = "poll" => UNCHANGED <<workerVars, step, idle>>
                 /\ UNCHANGED <<events, empty_cycles, commands, sender_alive>>
          /\ (pc = "barrier" /\ ReceiveErrs) =>
                 /\ pc' \in {"barrier", "poll"}
                 /\ UNCHANGED <<events, empty_cycles, commands, sender_alive>>]_vars

\* the sender was dropped before any command was sent: the worker passed
\* the barrier, found the channel disconnected at its first poll, and ended
C19_Witness ==
    /\ pc = "done"
    /\ ~sender_alive
    /\ sent = 0
    /\ step = NoStep
    /\ events = 0
    /\ empty_cycles = 0

\* C20: commands queued when the sender is dropped are not lost.  With the
\* sender gone the queue changes only by the worker taking its head; a poll
\* that finds a command takes it and handles it as any other (a
\* ProcessBlocks is stored and its blocks go to process_blocks); the worker
\* ends on disconnection only at a poll that finds the queue empty.
C20_QueuedCommandsSurviveDrop ==
    /\ []((pc = "poll" /\ ~sender_alive /\ commands # <<>>) =>
              /\ ~ENABLED PollDisconnected
              /\ ENABLED PollProcessBlocks \/ ENABLED PollStart \/ ENABLED PollTerminate)
    /\ [][~sender_alive =>
            /\ commands' = commands \/ TakesHead
            /\ (TakesHead /\ pc = "poll" /\ Head(commands).type = "ProcessBlocks") =>
                  /\ step'.stores = <<Head(commands).compacted>>
                  /\ blocks_db' = blocks_db \cup Head(commands).compacted
                  /\ Head(commands).blocks # <<>> =>
                        (pc' = "loop" /\ next_blocks' = Head(commands).blocks)
            /\ (pc = "poll" /\ pc' = "done") =>
                  \/ commands = <<>>
                  \/ TakesHead /\ Head(commands).type = "Terminate"]_vars

\* the sender is gone, one queued batch has just been taken and is being
\* processed, and another command still waits in the queue
C20_Witness ==
    /\ ~sender_alive
    /\ pc = "loop"
    /\ step.took = "ProcessBlocks"
    /\ step.at = "poll"
    /\ next_blocks # <<>>
    /\ commands # <<>>

=============================================================================
